---- MODULE Spec2Model ----
(***************************************************************************)
(* The pipeline supervisor of src/auvtrainer/run.py: run_pipeline and the  *)
(* functions it calls (_popen, _apply_wait, _wait_http, _shutdown_all,     *)
(* _terminate_process), together with their environment: the child         *)
(* processes, which may exit at any moment, and the operator, whose        *)
(* Ctrl+C raises KeyboardInterrupt in the supervisor between any two of    *)
(* its steps.                                                              *)
(*                                                                         *)
(* Time is counted in sleeps: one time.sleep(poll_s) of _wait_http and one *)
(* time.sleep(0.1) of _terminate_process each advance the loop's elapsed   *)
(* time by one tick; a probe _http_ok takes up to MaxProbeTicks ticks.     *)
(* Popen.kill() is SIGKILL, which a child cannot catch: a killed child is  *)
(* dead from the kill on.                                                  *)
(***************************************************************************)
EXTENDS Integers, Sequences, FiniteSets, TLC

\* ------------------------------------------------------------------ bounds
NSteps == 3          \* steps of the pipeline under supervision
MaxInterrupts == 2   \* Ctrl+C presses in one run
DeadlineTicks == 2   \* WaitSpec.deadline_s, in sleeps of poll_s
GraceTicks == 2      \* grace_s of _terminate_process, in sleeps of 0.1 s
MaxProbeTicks == 1   \* longest _http_ok call (timeout_s), in sleeps of poll_s

ExitCodes == {0, 7}  \* codes a child exits with by itself
KillCode == 0 - 9    \* returncode of a child ended by SIGKILL

Steps == 1..NSteps

\* WaitSpec.kind of a step; "none" is ProcSpec.wait = None, "other" is any
\* kind that is neither "sleep" nor "http".
WaitKinds == {"none", "sleep", "http", "other"}

\* Environments map a variable's name to its value, Absent if it is not set.
\* "" is the value that leaves PYTHONUNBUFFERED without effect.
EnvKeys == {"PYTHONUNBUFFERED", "PATH", "AUV_MODE"}
EnvVals == {"", "1"}
Absent == "absent"
Envs == [EnvKeys -> EnvVals \cup {Absent}]
NoEnv == [k \in EnvKeys |-> Absent]

\* WaitSpec.target of a sleep gate: any string
SleepTargets == {"3", "-1", "abc"}

NoTrigger == [kind |-> "none", step |-> 0, at |-> "none", allAlive |-> FALSE]

VARIABLES
    steps,        \* pipeline.steps: step index -> wait kind
    target,       \* WaitSpec.target of a sleep step ("" for the other steps)
    status,       \* per child: "none" (not launched), "alive" or "exited"
    exitcode,     \* per child: Popen.returncode once it has exited
    procs,        \* run_pipeline's list procs, as step indices
    pc,           \* where the supervisor is
    cur,          \* index of the step of the for loop at line 229
    gateElapsed,  \* _wait_http: time.time() - start, in ticks
    monIdx,       \* position of the for loop at line 241 in procs
    sdList,       \* the list _shutdown_all iterates, already reversed
    sdIdx,        \* position of the for loop at line 211 in sdList
    sdCtx,        \* caller of _shutdown_all: "monitor" (245), "ki" (251), "err" (255)
    graceElapsed, \* _terminate_process: time.time() - start, in ticks
    ret,          \* the value run_pipeline returns after the running cascade
    \* history, written only
    launched,     \* steps in the order _popen started them
    gate,         \* per step: "idle", "called", "returned", "failed"
    gateDead,     \* steps whose child was already dead when _apply_wait was called
    signals,      \* signals sent, in order: [sig, proc, alive, known, ctx]
    seen,         \* children whose exit a poll() has reported (Popen.returncode is set)
    trigger,      \* what first ended normal operation
    interrupts,   \* KeyboardInterrupts raised so far
    firstExit,    \* the process that exited first, while the run was normal (0: none)
    log,          \* the lines run_pipeline has printed: [what, names, code]
    stale,        \* monitoring: polls made since a tracked process has been dead
    deadAtMonitor, \* monitoring: the tracked processes that were dead when it began
    \* the environment of the children
    osEnviron,    \* os.environ of the supervisor
    stepEnv,      \* ProcSpec.env of the step launched (None and {} are the empty map)
    childEnv      \* env passed to subprocess.Popen by the last launch

vars == <<steps, target, status, exitcode, procs, pc, cur, gateElapsed, monIdx, sdList,
          sdIdx, sdCtx, graceElapsed, ret, launched, gate, gateDead, signals,
          seen, trigger, interrupts, firstExit, log, stale, deadAtMonitor,
          osEnviron, stepEnv, childEnv>>

\* ------------------------------------------------------------------ helpers
RECURSIVE Reverse(_)
Reverse(s) == IF s = <<>> THEN <<>> ELSE Reverse(Tail(s)) \o <<Head(s)>>

Range(s) == {s[k] : k \in DOMAIN s}

\* Popen.poll() is not None: the child has exited.
Exited(p) == status[p] = "exited"

\* step.wait is not None (line 233)
Gated(k) == steps[k] # "none"

\* reversed(procs) at line 211
ShutdownOrderFwd(list) == list
ShutdownOrder(list) == Reverse(list)

\* [(n, pp) for (n, pp) in procs if pp is not p] at line 245
OthersThanBefore(p) == SelectSeq(procs, LAMBDA q : q < p)
OthersThan(p) == SelectSeq(procs, LAMBDA q : q # p)

\* the return statements of run_pipeline: lines 246, 252, 256
ReturnCodeSwapped(ctx, code) ==
    IF ctx = "monitor" THEN code ELSE IF ctx = "ki" THEN 1 ELSE 0
ReturnCodeOne(ctx, code) == IF ctx = "ki" THEN 0 ELSE 1
ReturnCode(ctx, code) ==
    IF ctx = "monitor" THEN code ELSE IF ctx = "ki" THEN 0 ELSE 1

\* the step the for loop at line 229 takes after the step k
NextStepSkip(k) == k + 2
NextStep(k) == k + 1

\* _shutdown_all(procs) of the two handlers, lines 251 and 255
HandlerProcsButLast == SubSeq(procs, 1, Len(procs) - 1)
HandlerProcs == procs

\* line 182: `if proc.poll() is not None: return`
AlreadyExitedIgnored(p) == FALSE
AlreadyExited(p) == Exited(p)

\* the positions of the for loop of lines 229-238
StartupPcs ==
    {"popen", "append", "checkwait", "applywait", "sleeping", "http", "probed_ok",
     "probed_fail"}

\* What ends normal operation, with the step it is about (for an interrupt:
\* how many steps had been launched), where the supervisor was, and whether
\* every tracked process was running.
Event(kind, step) ==
    [kind |-> kind, step |-> step, at |-> pc,
     allAlive |-> kind = "interrupt" /\ \A p \in Range(procs) : status[p] = "alive"]

\* A signal sent: to whom, whether the process was running, whether a poll had
\* reported its exit, by which cascade, and the grace loop's elapsed time.
Signal(sig, p) ==
    [sig |-> sig, proc |-> p, alive |-> status[p] = "alive", known |-> p \in seen,
     ctx |-> sdCtx, at |-> graceElapsed]

\* line 194: the grace period is over, `(time.time() - start) < grace_s` is false
GraceOverEarly(elapsed) == elapsed >= GraceTicks - 1
GraceOver(elapsed) == elapsed >= GraceTicks

\* lines 91-93: dict(os.environ) with PYTHONUNBUFFERED set to "1"
ProjectEnv(os) == [os EXCEPT !["PYTHONUNBUFFERED"] = "1"]

\* line 105: env.update(d)
Update(env, d) == [k \in EnvKeys |-> IF d[k] # Absent THEN d[k] ELSE env[k]]

\* lines 103-105, 110: the env argument of subprocess.Popen
PopenEnv(os, d) == Update(ProjectEnv(os), d)

\* line 164: float(wait.target) is a number or raises ValueError
ParseFloat(t) ==
    CASE t = "3" -> [ok |-> TRUE, val |-> 3]
      [] t = "-1" -> [ok |-> TRUE, val |-> 0 - 1]
      [] OTHER -> [ok |-> FALSE, val |-> 0]

\* lines 164, 136: float(target) returns and time.sleep accepts the number
\* (it raises ValueError for a negative one)
SleepAcceptsAll(t) == TRUE
SleepAccepts(t) == ParseFloat(t).ok /\ ParseFloat(t).val >= 0

\* ------------------------------------------------------------------ Init
\* the state of run_pipeline and of the children when run_pipeline is called
InitRun ==
    /\ status = [p \in Steps |-> "none"]
    /\ exitcode = [p \in Steps |-> 0]
    /\ procs = <<>>
    /\ pc = "popen"
    /\ cur = 1
    /\ gateElapsed = 0
    /\ monIdx = 1
    /\ sdList = <<>>
    /\ sdIdx = 1
    /\ sdCtx = "none"
    /\ graceElapsed = 0
    /\ ret = 0
    /\ launched = <<>>
    /\ gate = [p \in Steps |-> "idle"]
    /\ gateDead = {}
    /\ signals = <<>>
    /\ seen = {}
    /\ trigger = NoTrigger
    /\ interrupts = 0
    /\ firstExit = 0
    /\ log = <<>>
    /\ stale = 0
    /\ deadAtMonitor = {}
    /\ childEnv = NoEnv

\* Any pipeline of NSteps steps, run in an empty environment with steps that
\* declare no overrides.
Init ==
    /\ steps \in [Steps -> WaitKinds]
    /\ target \in [Steps -> SleepTargets \cup {""}]
    /\ \A k \in Steps : (steps[k] = "sleep") <=> (target[k] \in SleepTargets)
    /\ osEnviron = NoEnv
    /\ stepEnv = NoEnv
    /\ InitRun

\* A pipeline of ungated steps, run in any environment with any overrides.
InitEnv ==
    /\ steps = [k \in Steps |-> "none"]
    /\ target = [k \in Steps |-> ""]
    /\ osEnviron \in Envs
    /\ stepEnv \in Envs
    /\ InitRun

\* ------------------------------------------------------------------ control
\* _shutdown_all(list) is entered from the caller ctx; `code` is what the
\* caller returns once the cascade is over.
EnterShutdown(list, ctx, code) ==
    /\ pc' = "sd_poll"
    /\ sdList' = ShutdownOrder(list)
    /\ sdIdx' = 1
    /\ sdCtx' = ctx
    /\ graceElapsed' = 0
    /\ gateElapsed' = 0
    /\ monIdx' = 1
    /\ ret' = ReturnCode(ctx, code)
    /\ stale' = 0
    /\ deadAtMonitor' = {}

\* print(...) at lines 244, 250 and 254
Emit(rec) == log' = Append(log, rec)

\* line 244: "[runner] Process '%s' exited with code %s"
ExitRecord(p) == [what |-> "exited", names |-> p, code |-> TRUE]

\* line 250: "[runner] Ctrl+C received; shutting down..."
InterruptRecord == [what |-> "interrupted", names |-> 0, code |-> FALSE]

\* line 254: "[runner] Error: %s" % e.  Only the message of lines 235-237
\* names a process and its exit code; that of line 153 gives the URL, that of
\* line 171 the kind, and those of float, time.sleep and Popen give neither.
ErrorRecord(kind) ==
    IF kind = "early"
       THEN [what |-> "error", names |-> cur, code |-> TRUE]
       ELSE [what |-> "error", names |-> 0, code |-> FALSE]

\* An Exception raised inside the try block: except Exception, lines 253-256.
Raise(kind) ==
    /\ trigger' = Event(kind, cur)
    /\ Emit(ErrorRecord(kind))
    /\ EnterShutdown(HandlerProcs, "err", 0)
    /\ UNCHANGED cur

\* Advance that takes the last step for granted.
AdvanceEarly ==
    /\ IF cur < NSteps - 1
          THEN /\ cur' = NextStep(cur)
               /\ pc' = "popen"
          ELSE /\ cur' = cur
               /\ pc' = "monitor"
    /\ deadAtMonitor' = IF pc' = "monitor" THEN {q \in Range(procs) : Exited(q)} ELSE {}
    /\ monIdx' = 1
    /\ gateElapsed' = 0
    /\ UNCHANGED <<sdList, sdIdx, sdCtx, graceElapsed, ret, trigger, log, stale>>

\* The body of the for loop at line 229 is over for the step cur: the next
\* step, or the monitoring loop at line 240.
Advance ==
    /\ IF cur < NSteps
          THEN /\ cur' = NextStep(cur)
               /\ pc' = "popen"
          ELSE /\ cur' = cur
               /\ pc' = "monitor"
    /\ deadAtMonitor' = IF pc' = "monitor" THEN {q \in Range(procs) : Exited(q)} ELSE {}
    /\ monIdx' = 1
    /\ gateElapsed' = 0
    /\ UNCHANGED <<sdList, sdIdx, sdCtx, graceElapsed, ret, trigger, log, stale>>

\* ------------------------------------------------------------------ startup
\* line 230: p = _popen(step).  subprocess.Popen either creates the child or
\* raises (OSError: no such program, no such cwd).
PopenOk ==
    /\ pc = "popen"
    /\ status' = [status EXCEPT ![cur] = "alive"]
    /\ launched' = Append(launched, cur)
    /\ childEnv' = PopenEnv(osEnviron, stepEnv)
    /\ pc' = "append"
    /\ UNCHANGED <<osEnviron, stepEnv, steps, target, log, stale, deadAtMonitor,
                   exitcode, procs, cur, gateElapsed, monIdx, sdList, sdIdx,
                   sdCtx, graceElapsed, ret, gate, gateDead, signals, seen,
                   trigger, interrupts,
                   firstExit>>

PopenRaises ==
    /\ pc = "popen"
    /\ Raise("launch")
    /\ UNCHANGED <<osEnviron, stepEnv, childEnv, steps, target,
                   status, exitcode, procs, launched, gate, gateDead,
                   signals, seen, interrupts,
                   firstExit>>

\* TrackProc that puts the process at the front of the list.
TrackProcFront ==
    /\ pc = "append"
    /\ procs' = <<cur>> \o procs
    /\ pc' = "checkwait"
    /\ UNCHANGED <<osEnviron, stepEnv, childEnv, steps, target, log, stale, deadAtMonitor,
                   status, exitcode, cur, gateElapsed, monIdx, sdList, sdIdx,
                   sdCtx, graceElapsed, ret, launched, gate, gateDead, signals,
                   seen, trigger, interrupts,
                   firstExit>>

\* line 231: procs.append((step.name, p))
TrackProc ==
    /\ pc = "append"
    /\ procs' = Append(procs, cur)
    /\ pc' = "checkwait"
    /\ UNCHANGED <<osEnviron, stepEnv, childEnv, steps, target, log, stale, deadAtMonitor,
                   status, exitcode, cur, gateElapsed, monIdx, sdList, sdIdx,
                   sdCtx, graceElapsed, ret, launched, gate, gateDead, signals,
                   seen, trigger, interrupts,
                   firstExit>>

\* CheckWait without the raise of lines 235-237.
CheckWaitNoRaise ==
    /\ pc = "checkwait"
    /\ IF ~Gated(cur)
          THEN Advance
          ELSE /\ pc' = "applywait"
               /\ UNCHANGED <<cur, gateElapsed, monIdx, sdList, sdIdx, sdCtx,
                              graceElapsed, ret, trigger, log, stale, deadAtMonitor>>
    /\ seen' = IF Gated(cur) /\ Exited(cur) THEN seen \cup {cur} ELSE seen
    /\ UNCHANGED <<osEnviron, stepEnv, childEnv, steps, target,
                   status, exitcode, procs, launched, gate, gateDead,
                   signals, interrupts,
                   firstExit>>

\* lines 233-237: no wait: next step; the child has already exited: raise
\* RuntimeError; else go on to line 238.
CheckWait ==
    /\ pc = "checkwait"
    /\ IF ~Gated(cur)
          THEN Advance
          ELSE IF Exited(cur)
                  THEN Raise("early")
                  ELSE /\ pc' = "applywait"
                       /\ UNCHANGED <<cur, gateElapsed, monIdx, sdList, sdIdx, sdCtx,
                                      graceElapsed, ret, trigger, log, stale, deadAtMonitor>>
    /\ seen' = IF Gated(cur) /\ Exited(cur) THEN seen \cup {cur} ELSE seen
    /\ UNCHANGED <<osEnviron, stepEnv, childEnv, steps, target,
                   status, exitcode, procs, launched, gate, gateDead,
                   signals, interrupts,
                   firstExit>>

\* line 238 and lines 163-171: _apply_wait(step.wait) is called and
\* dispatches on wait.kind; an unknown kind raises ValueError, and so does a
\* sleep target that float() or time.sleep() rejects.
ApplyWait ==
    /\ pc = "applywait"
    /\ gateDead' = IF Exited(cur) THEN gateDead \cup {cur} ELSE gateDead
    /\ IF steps[cur] = "sleep"
          THEN IF SleepAccepts(target[cur])
                  THEN /\ pc' = "sleeping"
                       /\ gate' = [gate EXCEPT ![cur] = "called"]
                       /\ UNCHANGED <<cur, gateElapsed, monIdx, sdList, sdIdx, sdCtx,
                                      graceElapsed, ret, trigger, log, stale, deadAtMonitor>>
                  ELSE /\ gate' = [gate EXCEPT ![cur] = "failed"]
                       /\ Raise("badsleep")
          ELSE IF steps[cur] = "http"
                  THEN /\ pc' = "http"
                       /\ gateElapsed' = 0
                       /\ gate' = [gate EXCEPT ![cur] = "called"]
                       /\ UNCHANGED <<cur, monIdx, sdList, sdIdx, sdCtx,
                                      graceElapsed, ret, trigger, log, stale, deadAtMonitor>>
                  ELSE /\ gate' = [gate EXCEPT ![cur] = "failed"]
                       /\ Raise("config")
    /\ UNCHANGED <<osEnviron, stepEnv, childEnv, steps, target,
                   status, exitcode, procs, launched, signals, seen,
                   interrupts,
                   firstExit>>

\* lines 130-136, 164-165: time.sleep is over, _apply_wait returns.
WaitSleep ==
    /\ pc = "sleeping"
    /\ gate' = [gate EXCEPT ![cur] = "returned"]
    /\ Advance
    /\ UNCHANGED <<osEnviron, stepEnv, childEnv, steps, target,
                   status, exitcode, procs, launched, gateDead, signals,
                   seen, interrupts,
                   firstExit>>

\* lines 149-150, 122-125: the deadline has not passed and the probe
\* _http_ok(url) is made; after some time it answers 2xx/3xx.
HttpProbeOk ==
    /\ pc = "http"
    /\ gateElapsed < DeadlineTicks
    /\ \E d \in 0..MaxProbeTicks : gateElapsed' = gateElapsed + d
    /\ pc' = "probed_ok"
    /\ UNCHANGED <<osEnviron, stepEnv, childEnv, steps, target, log, stale, deadAtMonitor,
                   status, exitcode, procs, cur, monIdx, sdList, sdIdx,
                   sdCtx, graceElapsed, ret, launched, gate, gateDead, signals,
                   seen, trigger, interrupts,
                   firstExit>>

\* lines 149-150, 122-127: the probe is made and fails after some time
\* (another status, connection refused, timed out).
HttpProbeFails ==
    /\ pc = "http"
    /\ gateElapsed < DeadlineTicks
    /\ \E d \in 0..MaxProbeTicks : gateElapsed' = gateElapsed + d
    /\ pc' = "probed_fail"
    /\ UNCHANGED <<osEnviron, stepEnv, childEnv, steps, target, log, stale, deadAtMonitor,
                   status, exitcode, procs, cur, monIdx, sdList, sdIdx,
                   sdCtx, graceElapsed, ret, launched, gate, gateDead, signals,
                   seen, trigger, interrupts,
                   firstExit>>

\* HttpReturn that does not look at the probe's answer.
HttpReturnUnprobed ==
    /\ pc \in {"probed_ok", "probed_fail"}
    /\ gate' = [gate EXCEPT ![cur] = "returned"]
    /\ Advance
    /\ UNCHANGED <<osEnviron, stepEnv, childEnv, steps, target,
                   status, exitcode, procs, launched, gateDead, signals,
                   seen, interrupts,
                   firstExit>>

\* lines 150-151: `if _http_ok(url): return`
HttpReturn ==
    /\ pc = "probed_ok"
    /\ gate' = [gate EXCEPT ![cur] = "returned"]
    /\ Advance
    /\ UNCHANGED <<osEnviron, stepEnv, childEnv, steps, target,
                   status, exitcode, procs, launched, gateDead, signals,
                   seen, interrupts,
                   firstExit>>

\* line 152: time.sleep(poll_s) after a failed probe, then line 149 again
HttpSleep ==
    /\ pc = "probed_fail"
    /\ gateElapsed' = gateElapsed + 1
    /\ pc' = "http"
    /\ UNCHANGED <<osEnviron, stepEnv, childEnv, steps, target, log, stale, deadAtMonitor,
                   status, exitcode, procs, cur, monIdx, sdList, sdIdx,
                   sdCtx, graceElapsed, ret, launched, gate, gateDead, signals,
                   seen, trigger, interrupts,
                   firstExit>>

\* HttpTimeout with a retry: the step is launched again.
HttpTimeoutRetry ==
    /\ pc = "http"
    /\ gateElapsed >= DeadlineTicks
    /\ gate' = [gate EXCEPT ![cur] = "failed"]
    /\ pc' = "popen"
    /\ gateElapsed' = 0
    /\ UNCHANGED <<osEnviron, stepEnv, childEnv, steps, target, log, stale, deadAtMonitor,
                   status, exitcode, procs, cur, monIdx, sdList, sdIdx,
                   sdCtx, graceElapsed, ret, launched, gateDead, signals,
                   seen, trigger, interrupts,
                   firstExit>>

\* lines 149, 153: the deadline has passed: RuntimeError.
HttpTimeout ==
    /\ pc = "http"
    /\ gateElapsed >= DeadlineTicks
    /\ gate' = [gate EXCEPT ![cur] = "failed"]
    /\ Raise("timeout")
    /\ UNCHANGED <<osEnviron, stepEnv, childEnv, steps, target,
                   status, exitcode, procs, launched, gateDead, signals,
                   seen, interrupts,
                   firstExit>>

\* ------------------------------------------------------------------ monitoring
\* lines 241, 247: the process polled after the one at position i of procs:
\* the next one, or after the last one and time.sleep(0.2) the first again
NextPollStuck(i) == 1
NextPollSkip(i) == IF i + 1 < Len(procs) THEN i + 2 ELSE 1
NextPoll(i) == IF i < Len(procs) THEN i + 1 ELSE 1

\* lines 241-247: poll the next tracked process; if it has exited, shut the
\* others down and return its code; after the last one, sleep 0.2 s and
\* start over.
Monitor ==
    /\ pc = "monitor"
    /\ LET p == procs[monIdx] IN
       IF Exited(p)
          THEN /\ trigger' = Event("child", p)
               /\ seen' = seen \cup {p}
               /\ Emit(ExitRecord(p))
               /\ EnterShutdown(OthersThan(p), "monitor", exitcode[p])
          ELSE /\ monIdx' = NextPoll(monIdx)
               /\ stale' = IF \E q \in Range(procs) : Exited(q) THEN stale + 1 ELSE 0
               /\ UNCHANGED <<pc, gateElapsed, sdList, sdIdx, sdCtx, graceElapsed,
                              ret, trigger, seen, log, deadAtMonitor>>
    /\ UNCHANGED <<osEnviron, stepEnv, childEnv, steps, target,
                   status, exitcode, procs, cur, launched, gate,
                   gateDead, signals, interrupts,
                   firstExit>>

\* ------------------------------------------------------------------ shutdown
\* lines 211-212, 182-183: the next process of the cascade; nothing to do if
\* it has exited.
SdPoll ==
    /\ pc = "sd_poll"
    /\ sdIdx <= Len(sdList)
    /\ LET p == sdList[sdIdx] IN
       /\ seen' = IF Exited(p) THEN seen \cup {p} ELSE seen
       /\ IF AlreadyExited(p)
             THEN /\ sdIdx' = sdIdx + 1
                  /\ pc' = pc
             ELSE /\ pc' = "sd_term"
                  /\ UNCHANGED sdIdx
    /\ UNCHANGED <<osEnviron, stepEnv, childEnv, steps, target, log, stale, deadAtMonitor,
                   status, exitcode, procs, cur, gateElapsed, monIdx, sdList,
                   sdCtx, graceElapsed, ret, launched, gate, gateDead, signals,
                   trigger, interrupts,
                   firstExit>>

\* SdTerm that goes on to the next process at once.
SdTermNoWait ==
    /\ pc = "sd_term"
    /\ LET p == sdList[sdIdx] IN
       signals' = Append(signals, Signal("TERM", p))
    /\ sdIdx' = sdIdx + 1
    /\ pc' = "sd_poll"
    /\ UNCHANGED <<osEnviron, stepEnv, childEnv, steps, target, log, stale, deadAtMonitor,
                   status, exitcode, procs, cur, gateElapsed, monIdx, sdList,
                   graceElapsed, sdCtx, ret, launched, gate, gateDead, seen, trigger,
                   interrupts,
                   firstExit>>

\* lines 185-193: send SIGTERM (a failure is swallowed) and start the clock.
SdTerm ==
    /\ pc = "sd_term"
    /\ LET p == sdList[sdIdx] IN
       signals' = Append(signals, Signal("TERM", p))
    /\ graceElapsed' = 0
    /\ pc' = "sd_grace"
    /\ UNCHANGED <<osEnviron, stepEnv, childEnv, steps, target, log, stale, deadAtMonitor,
                   status, exitcode, procs, cur, gateElapsed, monIdx, sdList,
                   sdIdx, sdCtx, ret, launched, gate, gateDead, seen, trigger,
                   interrupts,
                   firstExit>>

\* lines 194-197: one turn of the grace loop: return if the process has
\* exited, else sleep 0.1 s.
SdGrace ==
    /\ pc = "sd_grace"
    /\ ~GraceOver(graceElapsed)
    /\ IF Exited(sdList[sdIdx])
          THEN /\ seen' = seen \cup {sdList[sdIdx]}
               /\ sdIdx' = sdIdx + 1
               /\ pc' = "sd_poll"
               /\ graceElapsed' = 0
          ELSE /\ graceElapsed' = graceElapsed + 1
               /\ UNCHANGED <<sdIdx, pc, seen>>
    /\ UNCHANGED <<osEnviron, stepEnv, childEnv, steps, target, log, stale, deadAtMonitor,
                   status, exitcode, procs, cur, gateElapsed, monIdx, sdList,
                   sdCtx, ret, launched, gate, gateDead, signals, trigger,
                   interrupts,
                   firstExit>>

\* lines 194, 199-202: the grace period is over: proc.kill() (a failure is
\* swallowed).
SdKill ==
    /\ pc = "sd_grace"
    /\ GraceOver(graceElapsed)
    /\ LET p == sdList[sdIdx] IN
       /\ signals' = Append(signals, Signal("KILL", p))
       /\ IF status[p] = "alive"
             THEN /\ status' = [status EXCEPT ![p] = "exited"]
                  /\ exitcode' = [exitcode EXCEPT ![p] = KillCode]
             ELSE UNCHANGED <<status, exitcode>>
    /\ sdIdx' = sdIdx + 1
    /\ pc' = "sd_poll"
    /\ graceElapsed' = 0
    /\ UNCHANGED <<osEnviron, stepEnv, childEnv, steps, target, log, stale, deadAtMonitor,
                   procs, cur, gateElapsed, monIdx, sdList, sdCtx, ret,
                   launched, gate, gateDead, seen, trigger, interrupts,
                   firstExit>>

\* _shutdown_all returns and run_pipeline returns ret (lines 246, 252, 256).
Return ==
    /\ pc = "sd_poll"
    /\ sdIdx > Len(sdList)
    /\ pc' = "done"
    /\ UNCHANGED <<osEnviron, stepEnv, childEnv, steps, target, log, stale, deadAtMonitor,
                   status, exitcode, procs, cur, gateElapsed, monIdx, sdList,
                   sdIdx, sdCtx, graceElapsed, ret, launched, gate, gateDead,
                   signals, seen, trigger, interrupts,
                   firstExit>>

\* ------------------------------------------------------------------ environment
\* A running child exits by itself, at any moment of the run.
ChildExit ==
    /\ pc \notin {"done", "escaped"}
    /\ \E p \in Steps, c \in ExitCodes :
          /\ status[p] = "alive"
          /\ status' = [status EXCEPT ![p] = "exited"]
          /\ exitcode' = [exitcode EXCEPT ![p] = c]
          /\ firstExit' = IF firstExit = 0 /\ trigger = NoTrigger
                             THEN p ELSE firstExit
    /\ UNCHANGED <<osEnviron, stepEnv, childEnv, steps, target, log, stale, deadAtMonitor,
                   procs, pc, cur, gateElapsed, monIdx, sdList, sdIdx, sdCtx,
                   graceElapsed, ret, launched, gate, gateDead, signals, seen,
                   trigger, interrupts>>

\* InterruptInTry with _http_ok catching BaseException at line 126: an
\* interrupt raised during a probe counts as a failed probe.
InterruptSwallowedByProbe ==
    /\ pc \notin {"done", "escaped"}
    /\ sdCtx \in {"none", "monitor"}
    /\ interrupts < MaxInterrupts
    /\ interrupts' = interrupts + 1
    /\ IF pc = "http"
          THEN UNCHANGED <<pc, sdList, sdIdx, sdCtx, graceElapsed, gateElapsed, monIdx,
                           ret, trigger, log, stale, deadAtMonitor>>
          ELSE /\ Emit(InterruptRecord)
               /\ trigger' = IF trigger = NoTrigger
                                THEN Event("interrupt", Len(launched)) ELSE trigger
               /\ EnterShutdown(HandlerProcs, "ki", 0)
    /\ UNCHANGED <<osEnviron, stepEnv, childEnv, steps, target,
                   status, exitcode, procs, cur, launched, gate, gateDead,
                   signals, seen,
                   firstExit>>

\* Ctrl+C: KeyboardInterrupt is raised in the supervisor wherever it is.
\* Inside the try block (startup, gate, monitoring, the cascade of line 245)
\* it is caught at line 249; `except Exception` (lines 126, 190, 201) does
\* not catch it.
InterruptInTry ==
    /\ pc \notin {"done", "escaped"}
    /\ sdCtx \in {"none", "monitor"}
    /\ interrupts < MaxInterrupts
    /\ interrupts' = interrupts + 1
    /\ trigger' = IF trigger = NoTrigger THEN Event("interrupt", Len(launched)) ELSE trigger
    /\ Emit(InterruptRecord)
    /\ EnterShutdown(HandlerProcs, "ki", 0)
    /\ UNCHANGED <<osEnviron, stepEnv, childEnv, steps, target,
                   status, exitcode, procs, cur, launched, gate, gateDead,
                   signals, seen,
                   firstExit>>

\* Inside a handler (the cascades of lines 251 and 255) nothing catches it:
\* it leaves run_pipeline.
InterruptInHandler ==
    /\ pc \notin {"done", "escaped"}
    /\ sdCtx \in {"ki", "err"}
    /\ interrupts < MaxInterrupts
    /\ interrupts' = interrupts + 1
    /\ pc' = "escaped"
    /\ UNCHANGED <<osEnviron, stepEnv, childEnv, steps, target, log, stale, deadAtMonitor,
                   status, exitcode, procs, cur, gateElapsed, monIdx, sdList,
                   sdIdx, sdCtx, graceElapsed, ret, launched, gate, gateDead,
                   signals, seen, trigger,
                   firstExit>>

Next ==
    \/ PopenOk
    \/ PopenRaises
    \/ TrackProc
    \/ CheckWait
    \/ ApplyWait
    \/ WaitSleep
    \/ HttpProbeOk
    \/ HttpProbeFails
    \/ HttpReturn
    \/ HttpSleep
    \/ HttpTimeout
    \/ Monitor
    \/ SdPoll
    \/ SdTerm
    \/ SdGrace
    \/ SdKill
    \/ Return
    \/ ChildExit
    \/ InterruptInTry
    \/ InterruptInHandler

Spec == Init /\ [][Next]_vars

\* The steps of the supervisor, which a running supervisor goes on taking;
\* the children and the operator act when they want.
Supervisor ==
    \/ PopenOk \/ PopenRaises \/ TrackProc \/ CheckWait \/ ApplyWait \/ WaitSleep
    \/ HttpProbeOk \/ HttpProbeFails \/ HttpReturn \/ HttpSleep \/ HttpTimeout
    \/ Monitor \/ SdPoll \/ SdTerm \/ SdGrace \/ SdKill \/ Return

SpecFair == Spec /\ WF_vars(Supervisor)

\* _popen alone, for every environment and every set of overrides
SpecEnv == InitEnv /\ [][PopenOk]_vars

\* ------------------------------------------------------------------ claims
Terms == SelectSeq(signals, LAMBDA s : s.sig = "TERM")
TermsOf(ctx) == SelectSeq(signals, LAMBDA s : s.sig = "TERM" /\ s.ctx = ctx)
Termed == {Terms[k].proc : k \in DOMAIN Terms}
Signalled == {signals[k].proc : k \in DOMAIN signals}
Descending(seq) == \A a, b \in DOMAIN seq : a < b => seq[a].proc > seq[b].proc
NonAscending(seq) == \A a, b \in DOMAIN seq : a < b => seq[a].proc >= seq[b].proc
FirstSteps(k) == [j \in 1..k |-> j]
NoneAlive == \A p \in Steps : status[p] # "alive"
StartupFailures == {"launch", "early", "timeout", "config", "badsleep"}

(* C1: the steps are launched in exactly the order S1, S2, ..., Sn; a step
   is launched only after the gate of the gated step before it has returned;
   only one step is being started at a time; and when nothing has failed and
   no interrupt has come, the monitoring loop is entered with all n steps
   launched. *)
StartOrder ==
    /\ launched = FirstSteps(Len(launched))
    /\ \A k \in DOMAIN launched :
          (k > 1 /\ steps[k - 1] # "none") => gate[k - 1] = "returned"
    /\ pc = "popen" => Len(launched) = cur - 1
    /\ pc \in StartupPcs \ {"popen"} => Len(launched) = cur
    /\ (pc = "monitor" /\ trigger = NoTrigger) =>
          /\ Len(launched) = NSteps
          /\ \A k \in Steps : steps[k] # "none" => gate[k] = "returned"

StartOrderWitness ==
    /\ pc = "monitor"
    /\ interrupts = 0
    /\ launched = FirstSteps(NSteps)
    /\ steps[1] = "http"
    /\ steps[2] = "sleep"
    /\ gate[1] = "returned"
    /\ gate[2] = "returned"

(* C2: if the HTTP gate of step Sk times out, exactly S1..Sk have been
   launched and no later step ever is, and when run_pipeline returns it
   returns 1 and none of the processes is alive. *)
GateTimeoutTruncates ==
    trigger.kind = "timeout" =>
        /\ steps[trigger.step] = "http"
        /\ launched = FirstSteps(trigger.step)
        /\ \A p \in Steps : p > trigger.step => status[p] = "none"
        /\ pc = "done" => (ret = 1 /\ NoneAlive)

GateTimeoutWitness ==
    /\ pc = "done"
    /\ trigger.kind = "timeout"
    /\ trigger.step = 2
    /\ ret = 1
    /\ Termed = {1, 2}
    /\ status[3] = "none"

(* C3, as stated: the gate is never applied to a dead process, under every
   interleaving of the child's exit with the poll at line 234 and the call at
   line 238. *)
GateNeverOnDeadProcess == gateDead = {}

(* C3, amended: if the poll at line 234 finds the process of the gated step
   Sk exited, the gate is not invoked for Sk, no step after Sk is launched
   and the run returns 1; the gate is invoked only for a step whose exit no
   poll has reported. *)
EarlyExitSkipsGate ==
    /\ pc \in {"applywait", "sleeping", "http"} => cur \notin seen
    /\ trigger.kind = "early" =>
          /\ steps[trigger.step] # "none"
          /\ trigger.step \in seen
          /\ gate[trigger.step] = "idle"
          /\ launched = FirstSteps(trigger.step)
          /\ pc = "done" => ret = 1

EarlyExitWitness ==
    /\ pc = "done"
    /\ trigger.kind = "early"
    /\ trigger.step = 2
    /\ gate[2] = "idle"
    /\ status[3] = "none"

(* C4: after any failure during the startup of a step (launch, early exit,
   readiness timeout, other error) the cascade runs over every tracked
   process, each process the cascade has passed is dead, and run_pipeline
   returns 1 with no tracked process alive, whatever the exit code of the
   failed child. *)
StartupFailureShutsDown ==
    trigger.kind \in StartupFailures =>
        /\ sdCtx = "err"
        /\ sdList = Reverse(procs)
        /\ \A j \in DOMAIN sdList : j < sdIdx => status[sdList[j]] # "alive"
        /\ pc = "done" => (ret = 1 /\ \A p \in Range(procs) : status[p] # "alive")

StartupFailureWitness ==
    /\ pc = "done"
    /\ trigger.kind = "early"
    /\ exitcode[trigger.step] = 0
    /\ ret = 1
    /\ Len(procs) = 2
    /\ 1 \in Termed

(* C5: when the monitoring loop finds the process Sj exited with code C, all
   n steps are up, the cascade runs over the other n-1 processes in reverse
   start order, and (no interrupt arriving during the cascade) run_pipeline
   returns C with every other process terminated. *)
MonitoringPropagation ==
    trigger.kind = "child" =>
        /\ trigger.at = "monitor"
        /\ procs = FirstSteps(NSteps)
        /\ sdCtx = "monitor" =>
              /\ sdList = Reverse(SelectSeq(procs, LAMBDA q : q # trigger.step))
              /\ ret = exitcode[trigger.step]
        /\ interrupts = 0 => Descending(Terms)
        /\ (pc = "done" /\ interrupts = 0) =>
              (ret = exitcode[trigger.step] /\ NoneAlive)

MonitoringPropagationWitness ==
    /\ pc = "done"
    /\ interrupts = 0
    /\ trigger.kind = "child"
    /\ trigger.step = 3
    /\ ret = 7
    /\ Len(Terms) = 2
    /\ Terms[1].proc = 2
    /\ Terms[2].proc = 1

(* C6: in a cascade started by the exit of p in the monitoring loop, p is
   never sent a signal, and every other tracked process is sent SIGTERM
   unless the cascade found it exited when its turn came. *)
ChildExitCascade ==
    trigger.kind = "child" =>
        /\ trigger.step \notin Signalled
        /\ interrupts = 0 =>
              \A j \in DOMAIN sdList :
                  (j < sdIdx \/ (pc = "sd_grace" /\ j = sdIdx)) =>
                      (sdList[j] \in Termed \/ sdList[j] \in seen)
        /\ (pc = "done" /\ interrupts = 0) =>
              \A q \in Range(procs) \ {trigger.step} : q \in Termed \/ q \in seen

ChildExitCascadeWitness ==
    /\ pc = "done"
    /\ interrupts = 0
    /\ steps = <<"sleep", "none", "none">>
    /\ trigger.kind = "child"
    /\ trigger.step = 2
    /\ ret = 7
    /\ Termed = {1, 3}
    /\ Signalled = {1, 3}

(* C7, as stated: SIGTERM is sent in the exact reverse of the start order,
   and no signal is ever sent to a process that has already exited, under
   every interleaving of child exits with the cascade. *)
ReverseOrderNeverSignalsExited ==
    /\ Descending(Terms)
    /\ \A k \in DOMAIN signals : signals[k].alive

(* C7, amended: within each cascade SIGTERM is sent in the exact reverse of
   the start order, over the whole run never against that order, and no
   signal is sent to a process whose exit a poll has already reported; a
   child that exits between the poll and the signal is still signalled. *)
ReverseOrderPolledAlive ==
    /\ \A ctx \in {"monitor", "ki", "err"} : Descending(TermsOf(ctx))
    /\ NonAscending(Terms)
    /\ \A k \in DOMAIN signals : ~signals[k].known

ReverseOrderWitness ==
    /\ Len(Terms) = 3
    /\ Terms[1].proc = 3
    /\ Terms[2].proc = 2
    /\ Terms[3].proc = 1
    /\ \E k \in DOMAIN signals : ~signals[k].alive

(* C8: an interrupt in the monitoring loop with all children alive starts
   the cascade over all tracked processes, and run_pipeline returns 0 with
   every child terminated. *)
InterruptInMonitoring ==
    (trigger.kind = "interrupt" /\ trigger.at = "monitor" /\ trigger.allAlive) =>
        /\ procs = FirstSteps(NSteps)
        /\ sdCtx = "ki"
        /\ sdList = Reverse(procs)
        /\ interrupts = 1 => pc # "escaped"
        /\ pc = "done" => (ret = 0 /\ NoneAlive)

InterruptInMonitoringWitness ==
    /\ pc = "done"
    /\ trigger.kind = "interrupt"
    /\ trigger.at = "monitor"
    /\ trigger.allAlive
    /\ ret = 0
    /\ Termed = Steps

(* C9: an interrupt before the monitoring loop is never swallowed (also not
   by an HTTP probe): no further step is launched, the cascade runs over all
   processes tracked so far, and run_pipeline returns 0. *)
InterruptDuringStartup ==
    /\ interrupts > 0 => pc \notin StartupPcs \cup {"monitor"}
    /\ (trigger.kind = "interrupt" /\ trigger.at \in StartupPcs) =>
          /\ Len(launched) = trigger.step
          /\ sdCtx = "ki"
          /\ sdList = Reverse(procs)
          /\ \A j \in DOMAIN sdList : j < sdIdx => status[sdList[j]] # "alive"
          /\ pc = "done" => (ret = 0 /\ \A p \in Range(procs) : status[p] # "alive")

InterruptDuringStartupWitness ==
    /\ pc = "done"
    /\ trigger.kind = "interrupt"
    /\ trigger.at = "http"
    /\ ret = 0
    /\ launched = <<1, 2>>
    /\ Termed = {1, 2}

(* C10: on every path by which control leaves run_pipeline, by return or by
   an exception, no launched process is still alive. *)
NoProcessOutlivesRun == pc \in {"done", "escaped"} => NoneAlive

(* C11, as stated: the child's exit code that run_pipeline returns is the
   code of the tracked process that exited first in time. *)
ReturnsFirstExited ==
    (pc = "done" /\ trigger.kind = "child" /\ interrupts = 0) =>
        ret = exitcode[firstExit]

(* C11, amended: the child's exit code that run_pipeline returns is the code
   of the process whose exit the monitoring loop's poll, going through the
   processes in start order, reports first; when several processes have
   exited before that poll, it need not be the one that exited first. *)
ReturnsFirstPolled ==
    trigger.kind = "child" =>
        /\ firstExit # 0
        /\ trigger.step \in seen
        /\ (pc = "sd_poll" /\ sdIdx = 1 /\ sdCtx = "monitor") => seen = {trigger.step}
        /\ sdCtx = "monitor" => ret = exitcode[trigger.step]
        /\ (pc = "done" /\ interrupts = 0) => ret = exitcode[trigger.step]

ReturnsFirstPolledWitness ==
    /\ pc = "done"
    /\ interrupts = 0
    /\ trigger.kind = "child"
    /\ trigger.step = 1
    /\ firstExit = 2
    /\ ret = exitcode[1]
    /\ ret # exitcode[2]

(* C12: the shutdown cascade never raises: nothing that happens during the
   cascade makes _shutdown_all end before it has handled every process of
   its list. *)
ShutdownNeverAbandoned == pc = "escaped" => sdIdx > Len(sdList)

Kills == SelectSeq(signals, LAMBDA s : s.sig = "KILL")

(* C13, as stated: a process is force-killed if and only if it is still
   alive when the grace period has elapsed; a process that exits within the
   grace period is never sent the kill. *)
KilledIffAliveAtGraceEnd ==
    /\ \A k \in DOMAIN Kills : Kills[k].alive /\ Kills[k].at = GraceTicks
    /\ \A j \in DOMAIN sdList : j < sdIdx => status[sdList[j]] # "alive"

(* C13, amended: a process is force-killed if and only if no poll of the
   grace loop has reported its exit when the loop finds the grace period
   over: the kill comes no earlier than grace_s after the terminate signal
   and at the loop's first check after it, a process whose exit a poll has
   reported is never killed, and a process that exits during the loop's last
   sleep is still sent the kill. *)
GraceThenKill ==
    /\ \A k \in DOMAIN signals :
          signals[k].sig = "KILL" =>
              /\ signals[k].at = GraceTicks
              /\ ~signals[k].known
              /\ k > 1
              /\ signals[k - 1].sig = "TERM"
              /\ signals[k - 1].proc = signals[k].proc
              /\ signals[k - 1].ctx = signals[k].ctx
    /\ \A k \in DOMAIN Terms : Terms[k].at = 0
    /\ \A j \in DOMAIN sdList : j < sdIdx => status[sdList[j]] # "alive"

GraceThenKillWitness ==
    /\ \E k \in DOMAIN Kills : Kills[k].alive /\ Kills[k].at = GraceTicks
    /\ \E k \in DOMAIN Kills : ~Kills[k].alive
    /\ \E p \in Termed : p \in seen /\ \A k \in DOMAIN Kills : Kills[k].proc # p

\* How many steps had been launched when normal operation ended.
LaunchedAtTrigger ==
    CASE trigger.kind = "launch" -> trigger.step - 1
      [] trigger.kind = "child" -> NSteps
      [] OTHER -> trigger.step

(* C14: nothing is retried or restarted: no step is launched twice in one
   run, whatever its gate or its child did, and from the moment a shutdown
   cascade begins no process is launched any more. *)
NoRelaunch ==
    /\ \A i, j \in DOMAIN launched : i # j => launched[i] # launched[j]
    /\ (trigger # NoTrigger) <=> (sdCtx # "none")
    /\ sdCtx # "none" =>
          /\ pc \notin StartupPcs
          /\ Len(launched) = LaunchedAtTrigger

NoRelaunchWitness ==
    /\ pc = "done"
    /\ trigger.kind = "timeout" /\ trigger.step = 2
    /\ launched = <<1, 2>>
    /\ Exited(1) /\ 1 \notin Termed
    /\ gate[2] = "failed"

(* C15: a wait whose kind is neither "sleep" nor "http" is rejected before
   any process of the pipeline is launched: when the error is raised, no
   step has been started, the step that carries the wait included. *)
UnknownKindRejectedBeforeLaunch ==
    trigger.kind = "config" =>
        /\ launched = <<>>
        /\ trigger.step \notin Range(launched)

\* The supervisor leaves its position in _wait_http by a step of its own.
GateStep == pc' # pc /\ interrupts' = interrupts

(* C16, as stated: _wait_http fails with a readiness timeout exactly when no
   probe has succeeded by the time the elapsed time reaches deadline_s: it
   returns success only while the elapsed time is below deadline_s. *)
HttpSuccessOnlyBeforeDeadline ==
    [][(pc = "probed_ok" /\ gate'[cur] = "returned") =>
          gateElapsed < DeadlineTicks]_vars

(* C16, amended: _wait_http returns success immediately after the first
   probe that succeeds, sleeps poll_s and tries again after a probe that
   fails, never returns success without a successful probe, begins a probe
   only while the elapsed time is below deadline_s, and fails with a timeout
   exactly when it finds the elapsed time at or past deadline_s before
   beginning a probe; a probe begun before the deadline that succeeds after
   it still makes the gate succeed. *)
HttpGate ==
    [][/\ (pc = "probed_ok" /\ GateStep) =>
              /\ gate'[cur] = "returned"
              /\ pc' \in {"popen", "monitor"}
       /\ (pc = "probed_fail" /\ GateStep) =>
              /\ pc' = "http"
              /\ gateElapsed' = gateElapsed + 1
              /\ gate' = gate
       /\ \A k \in Steps :
              (steps[k] = "http" /\ gate[k] # "returned" /\ gate'[k] = "returned") =>
                  pc = "probed_ok" /\ k = cur
       /\ (pc' \in {"probed_ok", "probed_fail"} /\ pc' # pc) =>
              pc = "http" /\ gateElapsed < DeadlineTicks
       /\ \A k \in Steps :
              (steps[k] = "http" /\ gate[k] # "failed" /\ gate'[k] = "failed") =>
                  pc = "http" /\ k = cur /\ gateElapsed >= DeadlineTicks
       /\ (pc = "http" /\ gateElapsed >= DeadlineTicks /\ GateStep) =>
              gate'[cur] = "failed" /\ trigger'.kind = "timeout"
      ]_vars

HttpGateWitness ==
    /\ pc = "probed_ok"
    /\ gateElapsed >= DeadlineTicks
    /\ cur = 2
    /\ steps[1] = "http" /\ gate[1] = "returned"

SleepSteps == {k \in Steps : steps[k] = "sleep"}

(* C17, as stated: a gate of kind "sleep" always succeeds, for every target
   string: no sleep-gated step fails through its gate. *)
SleepGateNeverFails == \A k \in SleepSteps : gate[k] # "failed"

(* C17, amended: a gate of kind "sleep" succeeds exactly for the targets
   that float() turns into a number time.sleep accepts (not negative): for
   such a target _apply_wait blocks and returns and the step never fails
   through its gate; for any other target _apply_wait raises ValueError
   without blocking, which is a startup failure of the step. *)
SleepGate ==
    \A k \in SleepSteps :
        IF target[k] = "3"
           THEN /\ gate[k] # "failed"
                /\ (trigger.kind \in StartupFailures /\ trigger.step = k) =>
                       trigger.kind \in {"launch", "early"}
                /\ (cur > k \/ pc = "monitor") => gate[k] = "returned"
           ELSE /\ gate[k] \in {"idle", "failed"}
                /\ ~(pc = "sleeping" /\ cur = k)
                /\ gate[k] = "failed" =>
                       /\ trigger.kind = "badsleep" /\ trigger.step = k
                       /\ trigger.at = "applywait"
                       /\ ret = 1
                /\ cur <= k /\ pc # "monitor"

SleepGateWitness ==
    /\ pc = "done"
    /\ steps[1] = "sleep" /\ target[1] = "3" /\ gate[1] = "returned"
    /\ steps[2] = "sleep" /\ target[2] = "-1" /\ gate[2] = "failed"
    /\ launched = <<1, 2>>

LogNames(p) == \E i \in DOMAIN log : log[i].names = p /\ log[i].code
LogInterrupted == \E i \in DOMAIN log : log[i].what = "interrupted"

(* C18: on every termination path (early exit, readiness timeout, unknown
   wait kind, child exit during monitoring, interrupt) a log record that
   names the triggering process with its exit code, or says that the run was
   interrupted, has been emitted when run_pipeline returns. *)
EveryTerminationLogged ==
    (pc = "done" /\ trigger.kind \in {"early", "timeout", "config", "child", "interrupt"}) =>
        IF trigger.kind = "interrupt" THEN LogInterrupted ELSE LogNames(trigger.step)

AllLaunchedAndGated ==
    /\ launched = [k \in Steps |-> k]
    /\ procs = launched
    /\ \A k \in Steps : Gated(k) => gate[k] = "returned"
    /\ \A k \in Steps : ~Gated(k) => gate[k] = "idle"

(* C19: the supervisor is in the monitoring loop only when every step has
   been launched and every gated step's gate has returned; a Starting(i)
   state is left only to the start of step i + 1, to monitoring (after the
   last step) or to the shutdown cascade; monitoring is left only into the
   shutdown cascade, on a tracked process's exit or an interrupt. *)
MonitoringOnlyWhenAllStarted ==
    /\ [](pc = "monitor" => AllLaunchedAndGated /\ trigger = NoTrigger /\ cur = NSteps)
    /\ [][/\ (pc \in StartupPcs /\ cur' # cur) =>
                 cur' = cur + 1 /\ pc' = "popen" /\ pc \in {"checkwait", "sleeping", "probed_ok"}
          /\ (pc \in StartupPcs /\ pc' \notin StartupPcs) =>
                 \/ pc' = "monitor" /\ cur = NSteps
                 \/ pc' = "sd_poll" /\ sdCtx' \in {"ki", "err"} /\ trigger' # NoTrigger
          /\ (pc = "monitor" /\ pc' # "monitor") =>
                 /\ pc' = "sd_poll"
                 /\ trigger'.kind \in {"child", "interrupt"}
                 /\ sdCtx' \in {"monitor", "ki"}
         ]_vars

MonitoringOnlyWhenAllStartedWitness ==
    /\ pc = "monitor" /\ monIdx = NSteps
    /\ steps[1] = "http" /\ steps[2] = "sleep" /\ steps[NSteps] = "none"
    /\ \A p \in Steps : status[p] = "alive"

(* C20: in the monitoring loop the tracked processes are polled one after
   the other in start order, all of them in every iteration; so once a
   tracked process is dead, fewer polls than there are processes find a
   running process before a poll detects an exit: the exit is detected
   within one complete iteration. *)
ExitDetectedWithinOneIteration ==
    /\ stale <= NSteps - 1
    /\ pc = "monitor" =>
          /\ procs = [k \in Steps |-> k]
          /\ monIdx \in DOMAIN procs
          /\ stale > 0 => \E q \in Range(procs) : Exited(q)
    /\ pc # "monitor" => stale = 0

ExitDetectedWithinOneIterationWitness ==
    /\ pc = "monitor"
    /\ stale = NSteps - 1
    /\ monIdx = 1
    /\ Exited(procs[1])
    /\ \A p \in Steps \ {1} : status[p] = "alive"

Lowest(S) == CHOOSE q \in S : \A r \in S : q <= r
Detects == pc = "monitor" /\ trigger = NoTrigger /\ trigger'.kind = "child"

(* C21, as stated: the exit of a started step Sj during the startup of a
   later step is noticed by the first iteration of the monitoring loop,
   which makes run_pipeline return Sj's exit code: the code to return is
   that of every process that was dead when monitoring began. *)
DeadStepCodeReturned ==
    [][Detects => \A j \in deadAtMonitor : ret' = exitcode[j]]_vars

(* C21, amended: during startup only the process of the step being started
   is polled, so no exit of an earlier step is noticed and the later steps
   are launched all the same; a process that is dead when monitoring begins
   is reached by the first iteration of the monitoring loop, which returns
   the code of the first process in start order it finds exited: that of Sj
   unless a process started before Sj has exited too. *)
DeadStepNoticedByMonitor ==
    /\ [](pc \in StartupPcs => seen = {} /\ trigger = NoTrigger)
    /\ [](trigger.kind = "early" => trigger.step = cur /\ trigger.at = "checkwait")
    /\ [](pc = "monitor" =>
             /\ \A q \in deadAtMonitor : Exited(q) /\ monIdx <= q
             /\ deadAtMonitor # {} => stale = monIdx - 1)
    /\ [][Detects =>
             /\ trigger'.step = procs[monIdx]
             /\ ret' = exitcode[trigger'.step]
             /\ deadAtMonitor # {} =>
                   /\ trigger'.step <= Lowest(deadAtMonitor)
                   /\ (\A q \in Steps : Exited(q) => q >= Lowest(deadAtMonitor)) =>
                          trigger'.step = Lowest(deadAtMonitor)
         ]_vars

DeadStepNoticedByMonitorWitness ==
    /\ pc = "monitor" /\ monIdx = 2
    /\ deadAtMonitor = {2, 3}
    /\ exitcode[2] # exitcode[3]
    /\ steps[3] = "sleep" /\ gate[3] = "returned"

(* C22: the tracked-process list is always a prefix of the pipeline's step
   sequence, without duplicates; it changes only by the append of the step
   just launched, during startup, and never loses or reorders an entry, in
   monitoring and in the shutdown cascade as well. *)
TrackedListPrefix ==
    /\ [](/\ procs = [k \in 1..Len(procs) |-> k]
          /\ Len(procs) <= NSteps
          /\ Len(procs) <= Len(launched) /\ Len(launched) <= Len(procs) + 1)
    /\ [][procs' # procs =>
             /\ pc = "append"
             /\ procs' = Append(procs, cur)
             /\ cur = Len(launched)
             /\ sdCtx = "none" /\ sdCtx' = "none"
         ]_vars

TrackedListPrefixWitness ==
    /\ pc = "sd_grace" /\ sdCtx = "monitor"
    /\ sdList = <<3, 1>> /\ sdIdx = 2
    /\ procs = <<1, 2, 3>>

Unbuffered(env) == env["PYTHONUNBUFFERED"] \notin {Absent, ""}

(* C23: the environment given to a child is the supervisor's environment
   overlaid with the step's env entries, the step's value winning on every
   key, and unbuffered output is in force in it for every child, also when
   the step's env has an entry for the unbuffered-output key. *)
ChildEnvMergedAndUnbuffered ==
    pc = "append" =>
        /\ \A k \in EnvKeys \ {"PYTHONUNBUFFERED"} :
              childEnv[k] = IF stepEnv[k] # Absent THEN stepEnv[k] ELSE osEnviron[k]
        /\ Unbuffered(childEnv)

(* C24: whenever a shutdown cascade begins or runs, every process that has
   been launched is in the tracked list: control never reaches a cascade
   between a launch and its append. *)
LaunchedAreTracked == sdCtx # "none" => Range(launched) \subseteq Range(procs)

InGrace ==
    {p \in Termed : p \notin seen /\ \A k \in DOMAIN Kills : Kills[k].proc # p}

(* C25: the shutdown cascade is sequential: at most one process is in the
   state "terminate sent, neither seen exited nor killed", and the terminate
   signal goes to the next process only when the one signalled before has
   been seen exited or sent the kill. *)
CascadeSequential ==
    /\ Cardinality(InGrace) <= 1
    /\ pc = "sd_term" => InGrace \subseteq {sdList[sdIdx]}
    /\ pc = "sd_grace" => InGrace = {sdList[sdIdx]}
    /\ \A k \in DOMAIN signals :
          (k > 1 /\ signals[k].sig = "TERM" /\ signals[k - 1].proc # signals[k].proc) =>
              \/ signals[k - 1].sig = "KILL"
              \/ signals[k - 1].proc \in seen

CascadeSequentialWitness ==
    /\ pc = "sd_grace" /\ sdIdx = 3
    /\ Len(signals) = 4
    /\ signals[1].sig = "TERM" /\ signals[2].sig = "KILL"
    /\ signals[3].sig = "TERM" /\ signals[3].proc \in seen
    /\ signals[4].sig = "TERM"

(* C26: the exit code of a run is fixed by the first shutdown trigger: when
   the monitoring loop has detected a child's exit with code C, run_pipeline
   returns C, whether or not an interrupt arrives during the cascade. *)
FirstTriggerFixesCode ==
    (pc = "done" /\ trigger.kind = "child") => ret = exitcode[trigger.step]

(* C27: run_pipeline returns 0 only for a run ended by an interrupt or by a
   tracked process that exited with code 0 during monitoring; a run ended by
   a startup failure returns 1; a run ended by a child's exit with code C
   during monitoring returns C. *)
ReturnValueByTrigger ==
    pc = "done" =>
        /\ ret = 0 =>
              \/ trigger.kind = "interrupt"
              \/ trigger.kind = "child" /\ exitcode[trigger.step] = 0
        /\ trigger.kind \in StartupFailures => ret = 1
        /\ trigger.kind = "child" => ret = exitcode[trigger.step]
        /\ trigger.kind = "interrupt" => ret = 0

(* C28: run_pipeline does not end while nothing has triggered a shutdown;
   once a trigger has occurred, a fairly scheduled supervisor eventually
   returns, and a cascade sends the terminate signal, and so waits one
   grace period, at most once for each tracked process. *)
EventuallyStopped ==
    /\ [](pc \in {"done", "escaped"} => trigger # NoTrigger)
    /\ [](\A c \in {"monitor", "ki", "err"} : Len(TermsOf(c)) <= Len(procs))
    /\ [](trigger # NoTrigger => <>(pc = "done"))

====
